---- MODULE Spec2Model ----
(***************************************************************************)
(* Model of the PromotionAI backend's POST /api/prompt handlers.           *)
(*                                                                         *)
(* The repository holds several iterations of the same server.  Three of   *)
(* them route a prompt to text-generation providers and are modelled here: *)
(*   "server"   src/server.js           five providers, errorLog, random  *)
(*                                       fallback text                     *)
(*   "part004"  src/unnamed/part_004     five providers, per-call timeout, *)
(*                                       template fallback text            *)
(*   "part000"  src/unnamed/part_000     OpenRouter only, tool mode, no    *)
(*                                       fallback                          *)
(* One of them is deployed (variable variant).  A handler runs             *)
(* synchronously up to its next await, so one action is the code between   *)
(* two awaits: the arrival of a request up to the first provider call, and *)
(* the settling of a provider call up to the next call or the response.    *)
(***************************************************************************)
EXTENDS Integers, Sequences, FiniteSets, TLC

VARIABLES
    variant,    \* which iteration of the server is deployed
    key,        \* key[p]: provider p's credential is a non-empty string
    pc,         \* "idle" | "await" (a provider call is in flight) | "done"
    req,        \* the request body being handled
    inflight,   \* the provider whose call is awaited, or "none"
    idx,        \* position of the auto loop in apiOrder (0 outside the loop)
    calls,      \* providers called for this request, in call order
    outcome,    \* outcome[p]: what p's endpoint did when called ("none" if not called)
    errorLog,   \* server.js: the handler's errorLog array
    resp,       \* the HTTP response sent (status 0: none yet)
    fb,         \* SpecFallback: two requests with one text and template, and the
                \* reply each got from the fallback
    h,          \* SpecConcurrent: h[id] is the handler invocation of request id
    net,        \* SpecConcurrent: the provider calls issued and not yet answered
    st,         \* SpecServer: the GET /api/status handler's invocation
    img,        \* SpecImage: the POST /api/image handler's invocation
    conn,       \* SpecResponses: the HTTP exchange of the /api/prompt request
    pay,        \* SpecPayment: the database and the /api/payment-success handlers
    upd         \* SpecUpdateUser: the user store and the /api/update-user handler

vars ==
    <<variant, key, pc, req, inflight, idx, calls, outcome, errorLog, resp, fb,
      h, net, st, img, conn, pay, upd>>

\* the variables of the single POST /api/prompt invocation
promptVars == <<pc, req, inflight, idx, calls, outcome, errorLog, resp>>

---------------------------------------------------------------------------
(* Bounds of the model *)

\* longest request text drawn for a request
MaxTextLen == 1

---------------------------------------------------------------------------
(* Data *)

Variants == {"server", "part004", "part000"}

Providers == {"openrouter", "huggingface", "gemini", "cohere", "openai"}

\* the auto order of each router
apiOrder(v) ==
    IF v = "server"
    THEN <<"openrouter", "huggingface", "gemini", "cohere", "openai">>
    ELSE <<"openai", "gemini", "cohere", "openrouter", "huggingface">>

\* property names every object literal inherits from Object.prototype
ObjectPrototypeNames == {"constructor"}

\* API_CONFIG[name] is truthy
API_CONFIG_has(name) == name \in Providers \/ name \in ObjectPrototypeNames

\* A faulty API_CONFIG_key, for the sensitivity of KeylessProviderNeverCalled:
\* the key of a configured provider is taken as present.
API_CONFIG_key_Unchecked(name) == name \in Providers

\* API_CONFIG[name].key is truthy
API_CONFIG_key(name) == name \in Providers /\ key[name]

Chars == {"a", "b"}

\* request texts: strings over Chars, the empty string included
Texts == UNION {[1..n -> Chars] : n \in 0..MaxTextLen}

\* text bodies a provider may send in a 2xx answer
Bodies == {<<>>, <<" ">>, <<"x">>, <<" ", "x">>}

\* String.prototype.trim
RECURSIVE trimStart(_)
trimStart(s) == IF s # <<>> /\ Head(s) = " " THEN trimStart(Tail(s)) ELSE s

RECURSIVE trimEnd(_)
trimEnd(s) ==
    IF s # <<>> /\ s[Len(s)] = " " THEN trimEnd(SubSeq(s, 1, Len(s) - 1)) ELSE s

trim(s) == trimEnd(trimStart(s))

\* JavaScript values the handlers pass around
Str(s) == [kind |-> "string", str |-> s]

Undefined == [kind |-> "undefined", str |-> <<>>]

FunctionValue == [kind |-> "function", str |-> <<>>]

\* !v
Falsy(v) == v.kind = "undefined" \/ (v.kind = "string" /\ v.str = <<>>)

\* an Error: its message's fixed part and the provider names the message contains
Error(msg, names) == [msg |-> msg, names |-> names]

NoError == Error("", {})

Return(v) == [threw |-> FALSE, val |-> v, err |-> NoError]

Throw(e) == [threw |-> TRUE, val |-> Undefined, err |-> e]

\* what a provider endpoint does with one call:
\*   ok          2xx, JSON in the provider's schema carrying text body
\*   nofield     2xx, JSON object without the schema's list (e.g. {})
\*   http_error  non-2xx
\*   net_error   fetch or the body parse rejects
\*   timeout     nothing within the caller's timeout (part_004 only)
Outcome(kind, body) == [kind |-> kind, body |-> body]

NoOutcome == Outcome("none", <<>>)

Settled == {Outcome("ok", b) : b \in Bodies}
            \cup {Outcome(k, <<>>) : k \in {"nofield", "http_error", "net_error"}}

TimedOut == Outcome("timeout", <<>>)

\* request bodies; an absent field takes the handler's default
Request(hasPrompt, prompt, apiPreference, template, tool, action) ==
    [hasPrompt |-> hasPrompt, prompt |-> prompt, apiPreference |-> apiPreference,
     template |-> template, tool |-> tool, action |-> action]

NoRequest == Request(FALSE, <<>>, "auto", "default", "", "")

Preferences == {"auto"} \cup Providers \cup {"deepseek"} \cup ObjectPrototypeNames

TemplateValues == {"default", "facebook", "zzz", "constructor"}

\* req.body.prompt as a JavaScript value
PromptValue(r) == IF r.hasPrompt THEN Str(r.prompt) ELSE Undefined

\* the prompts a request may carry: absent, or any text
PromptFields == {<<FALSE, <<>> >>} \cup {<<TRUE, t>> : t \in Texts}

\* HTTP responses; apiUsed "" when the body has no such field
Response(status, apiUsed, reply, error) ==
    [status |-> status, apiUsed |-> apiUsed, reply |-> reply, error |-> error]

NoResponse == Response(0, "", Undefined, NoError)

\* no reply yet
NotYet == [kind |-> "none", str |-> <<>>]

FallbackPair(text, template, first, second) ==
    [text |-> text, template |-> template, first |-> first, second |-> second]

NoPair == FallbackPair(<<>>, "default", NotYet, NotYet)

---------------------------------------------------------------------------
(* src/server.js: provider adapters *)

\* Each takes the endpoint's outcome o and gives what the async function
\* settles to: Return(value) or Throw(error).

callOpenRouterS(o) ==
    IF o.kind = "net_error" THEN Throw(Error("fetch failed", {}))
    ELSE IF o.kind = "http_error" THEN Throw(Error("OpenRouter: ", {"openrouter"}))
    ELSE IF o.kind = "nofield" THEN Throw(Error("TypeError", {}))  \* data.choices[0]
    ELSE Return(Str(o.body))

\* data[0]?.generated_text || "No response generated"
NoResponseGenerated == <<"No response generated">>

callHuggingFaceS(o) ==
    IF o.kind = "net_error" THEN Throw(Error("fetch failed", {}))
    ELSE IF o.kind = "http_error" THEN Throw(Error("Hugging Face: ", {"huggingface"}))
    ELSE IF o.kind = "ok" /\ o.body # <<>> THEN Return(Str(o.body))
    ELSE Return(Str(NoResponseGenerated))

callGeminiS(o) ==
    IF o.kind = "net_error" THEN Throw(Error("fetch failed", {}))
    ELSE IF o.kind = "http_error" THEN Throw(Error("Gemini: ", {"gemini"}))
    ELSE IF o.kind = "nofield" THEN Throw(Error("TypeError", {}))  \* data.candidates[0]
    ELSE Return(Str(o.body))

callCohereS(o) ==
    IF o.kind = "net_error" THEN Throw(Error("fetch failed", {}))
    ELSE IF o.kind = "http_error" THEN Throw(Error("Cohere: ", {"cohere"}))
    ELSE IF o.kind = "nofield" THEN Throw(Error("TypeError", {}))  \* data.generations[0]
    ELSE Return(Str(o.body))

callOpenAIS(o) ==
    IF o.kind = "net_error" THEN Throw(Error("fetch failed", {}))
    ELSE IF o.kind = "http_error" THEN Throw(Error("OpenAI: ", {"openai"}))
    ELSE IF o.kind = "nofield" THEN Throw(Error("TypeError", {}))  \* data.choices[0]
    ELSE Return(Str(o.body))

callSpecificAPIS(apiName, o) ==
    CASE apiName = "openrouter" -> callOpenRouterS(o)
      [] apiName = "huggingface" -> callHuggingFaceS(o)
      [] apiName = "gemini" -> callGeminiS(o)
      [] apiName = "cohere" -> callCohereS(o)
      [] apiName = "openai" -> callOpenAIS(o)
      [] OTHER -> Throw(Error("Unknown API: ", {apiName}))

\* Math.floor(Math.random() * businessResponses.length)
RandomIndexes == 0..2

\* generateSmartResponse(prompt), with the random index drawn made explicit
generateSmartResponse(prompt, r) ==
    CASE r = 0 -> <<"Business Growth Content:">> \o prompt \o <<"#BusinessGrowth">>
      [] r = 1 -> <<"Professional Marketing Copy:">> \o prompt \o <<"#Marketing">>
      [] OTHER -> <<"Engaging Business Content:">> \o prompt \o <<"#Engagement">>

---------------------------------------------------------------------------
(* src/unnamed/part_004: provider adapters *)

\* the adapters' common tail: if (!reply) throw ...; return isTest ? "OK" : reply
OK == <<"O", "K">>

callOpenAI4(o, isTest) ==
    IF o.kind = "net_error" THEN Throw(Error("fetch failed", {}))
    ELSE IF o.kind = "http_error" THEN Throw(Error("OpenAI: ", {"openai"}))
    ELSE IF o.kind # "ok" \/ o.body = <<>>
         THEN Throw(Error("No response generated from OpenAI", {"openai"}))
    ELSE Return(Str(IF isTest THEN OK ELSE o.body))

callGemini4(o, isTest) ==
    IF o.kind = "net_error" THEN Throw(Error("fetch failed", {}))
    ELSE IF o.kind = "http_error" THEN Throw(Error("Gemini: ", {"gemini"}))
    ELSE IF o.kind # "ok" \/ o.body = <<>>
         THEN Throw(Error("No response generated from Gemini", {"gemini"}))
    ELSE Return(Str(IF isTest THEN OK ELSE o.body))

\* the only adapter that trims the reply: return isTest ? "OK" : reply.trim()
callCohere4(o, isTest) ==
    IF o.kind = "net_error" THEN Throw(Error("fetch failed", {}))
    ELSE IF o.kind = "http_error" THEN Throw(Error("Cohere: ", {"cohere"}))
    ELSE IF o.kind # "ok" \/ o.body = <<>>
         THEN Throw(Error("No response generated from Cohere", {"cohere"}))
    ELSE Return(Str(IF isTest THEN OK ELSE trim(o.body)))

callOpenRouter4(o, isTest) ==
    IF o.kind = "net_error" THEN Throw(Error("fetch failed", {}))
    ELSE IF o.kind = "http_error" THEN Throw(Error("OpenRouter: ", {"openrouter"}))
    ELSE IF o.kind # "ok" \/ o.body = <<>>
         THEN Throw(Error("No response generated from OpenRouter", {"openrouter"}))
    ELSE Return(Str(IF isTest THEN OK ELSE o.body))

callHuggingFace4(o, isTest) ==
    IF o.kind = "net_error" THEN Throw(Error("fetch failed", {}))
    ELSE IF o.kind = "http_error" THEN Throw(Error("Hugging Face: ", {"huggingface"}))
    ELSE IF o.kind # "ok" \/ o.body = <<>>
         THEN Throw(Error("No response generated from HuggingFace", {"huggingface"}))
    ELSE Return(Str(IF isTest THEN OK ELSE o.body))

\* Promise.race([promise, timeout]): the timer wins exactly when the endpoint
\* gives nothing within ms
withTimeout(result, o, apiName) ==
    IF o.kind = "timeout" THEN Throw(Error(" timeout after ", {apiName})) ELSE result

callSpecificAPI4(apiName, o, isTest) ==
    CASE apiName = "openai" -> withTimeout(callOpenAI4(o, isTest), o, "openai")
      [] apiName = "gemini" -> withTimeout(callGemini4(o, isTest), o, "gemini")
      [] apiName = "cohere" -> withTimeout(callCohere4(o, isTest), o, "cohere")
      [] apiName = "openrouter" -> withTimeout(callOpenRouter4(o, isTest), o, "openrouter")
      [] apiName = "huggingface" -> withTimeout(callHuggingFace4(o, isTest), o, "huggingface")
      [] OTHER -> Throw(Error("Unknown API: ", {apiName}))

\* the templates object of generateFallback: its own keys
FallbackTemplates ==
    {"facebook", "instagram", "twitter", "email", "product", "adcopy", "blog",
     "video", "default"}

\* templates[t] of a key t the object owns: `<heading> ${prompt} <closing text>`
FallbackText(t, prompt) == <<"heading:", t>> \o prompt \o <<"closing:", t>>

\* generateFallback(prompt, template) == templates[template] || templates.default
\* (a name inherited from Object.prototype yields that inherited function)
generateFallback(prompt, template) ==
    IF template \in FallbackTemplates THEN Str(FallbackText(template, prompt))
    ELSE IF template \in ObjectPrototypeNames THEN FunctionValue
    ELSE Str(FallbackText("default", prompt))

---------------------------------------------------------------------------
(* src/unnamed/part_000: the OpenRouter call *)

\* callOpenRouter(finalPrompt, maxTokens) once the fetch has settled with o:
\* return output || ""
callOpenRouter0(o) ==
    IF o.kind = "net_error" THEN Throw(Error("fetch failed", {}))
    ELSE IF o.kind = "http_error" THEN Throw(Error("OpenRouter error: ", {"openrouter"}))
    ELSE IF o.kind = "ok" THEN Return(Str(o.body))
    ELSE Return(Str(<<>>))

---------------------------------------------------------------------------
(* Handler steps *)

\* The handler's position and locals after a step.
Await(apiName, i, cs, log) ==
    [pc |-> "await", inflight |-> apiName, idx |-> i, calls |-> Append(cs, apiName),
     errorLog |-> log, resp |-> NoResponse]

Done(cs, log, r) ==
    [pc |-> "done", inflight |-> "none", idx |-> 0, calls |-> cs,
     errorLog |-> log, resp |-> r]

Apply(s) ==
    /\ pc' = s.pc
    /\ inflight' = s.inflight
    /\ idx' = s.idx
    /\ calls' = s.calls
    /\ errorLog' = s.errorLog
    /\ resp' = s.resp

\* apiPreference !== "auto" && API_CONFIG[apiPreference]
IsSpecific(apiPreference) ==
    apiPreference # "auto" /\ API_CONFIG_has(apiPreference)

---------------------------------------------------------------------------
(* src/server.js: app.post("/api/prompt") *)

\* errorLog.push(`${apiName}: ${message}`)
LogEntry(apiName, e) == [api |-> apiName, err |-> e]

\* new Error("All APIs failed: " + errorLog.join("; "))
AllAPIsFailed(log) ==
    Error("All APIs failed: ",
          {log[i].api : i \in DOMAIN log} \cup UNION {log[i].err.names : i \in DOMAIN log})

\* the outer catch: the fallback response, r the random index drawn
CatchS(q, e, r) ==
    Response(200, "fallback", Str(generateSmartResponse(q.prompt, r)), e)

\* the auto loop from position i up to its next callSpecificAPI: every provider
\* without a key is logged and skipped; position Len + 1 means the loop is over
RECURSIVE AdvanceS(_, _)
AdvanceS(i, log) ==
    IF i > Len(apiOrder("server")) THEN [idx |-> i, log |-> log]
    ELSE IF ~API_CONFIG_key(apiOrder("server")[i])
         THEN AdvanceS(i + 1,
                       Append(log, LogEntry(apiOrder("server")[i], Error("No API key", {}))))
         ELSE [idx |-> i, log |-> log]

\* after the branches: if (!response) throw ...; res.json({reply, apiUsed, ...})
AfterRoutingS(q, response, usedAPI, cs, log, r) ==
    IF Falsy(response) THEN Done(cs, log, CatchS(q, AllAPIsFailed(log), r))
    ELSE Done(cs, log, Response(200, usedAPI, response, NoError))

LoopS(q, i, cs, log, r) ==
    LET a == AdvanceS(i, log) IN
    IF a.idx > Len(apiOrder("server"))
    THEN AfterRoutingS(q, Undefined, "", cs, a.log, r)
    ELSE Await(apiOrder("server")[a.idx], a.idx, cs, a.log)

\* from the arrival of the request to the first await or the response
EnterS(q, r) ==
    IF Falsy(PromptValue(q))
    THEN Done(<<>>, <<>>, Response(400, "", Undefined, Error("Prompt is required", {})))
    ELSE IF IsSpecific(q.apiPreference)
    THEN IF ~API_CONFIG_key(q.apiPreference)
         THEN Done(<<>>, <<>>,
                   Response(400, "", Undefined,
                            Error(" API key not configured", {q.apiPreference})))
         ELSE Await(q.apiPreference, 0, <<>>, <<>>)
    ELSE LoopS(q, 1, <<>>, <<>>, r)

\* A faulty ResumeS, for the sensitivity of PreferredProviderCalledOnce: a failed
\* preferred provider falls back to the other APIs through the auto loop.
ResumeS_FallsBackToOthers(q, apiName, o, i, cs, log, r) ==
    LET c == callSpecificAPIS(apiName, o) IN
    IF c.threw
    THEN LoopS(q, IF IsSpecific(q.apiPreference) THEN 1 ELSE i + 1, cs,
               Append(log, LogEntry(apiName, c.err)), r)
    ELSE AfterRoutingS(q, c.val, apiName, cs, log, r)

\* A faulty ResumeS, for the sensitivity of CallsFollowPriority: after a failure
\* the auto loop passes over the next provider of the list.
ResumeS_PassesOverNext(q, apiName, o, i, cs, log, r) ==
    LET c == callSpecificAPIS(apiName, o) IN
    IF c.threw
    THEN IF IsSpecific(q.apiPreference)
         THEN Done(cs, Append(log, LogEntry(apiName, c.err)),
                   CatchS(q, Error("Requested API failed: ", c.err.names), r))
         ELSE LoopS(q, i + 2, cs, Append(log, LogEntry(apiName, c.err)), r)
    ELSE AfterRoutingS(q, c.val, apiName, cs, log, r)

\* from the settling of apiName's call to the next await or the response
ResumeS(q, apiName, o, i, cs, log, r) ==
    LET c == callSpecificAPIS(apiName, o) IN
    IF IsSpecific(q.apiPreference)
    THEN IF c.threw
         THEN Done(cs, Append(log, LogEntry(apiName, c.err)),
                   CatchS(q, Error("Requested API failed: ", c.err.names), r))
         ELSE AfterRoutingS(q, c.val, apiName, cs, log, r)
    ELSE IF c.threw
         THEN LoopS(q, i + 1, cs, Append(log, LogEntry(apiName, c.err)), r)
         ELSE AfterRoutingS(q, c.val, apiName, cs, log, r)

---------------------------------------------------------------------------
(* src/unnamed/part_004: app.post("/api/prompt") *)

\* the outer catch: the fallback response
Catch4(q) ==
    Response(200, "fallback", generateFallback(q.prompt, q.template), NoError)

\* the auto loop from position i up to its next callSpecificAPI
RECURSIVE Advance4(_)
Advance4(i) ==
    IF i > Len(apiOrder("part004")) THEN i
    ELSE IF ~API_CONFIG_key(apiOrder("part004")[i]) THEN Advance4(i + 1)
    ELSE i

\* if (!response) throw ...; res.json({success, reply, apiUsed, ...})
AfterRouting4(q, response, usedAPI, cs) ==
    IF Falsy(response) THEN Done(cs, <<>>, Catch4(q))
    ELSE Done(cs, <<>>, Response(200, usedAPI, response, NoError))

Loop4(q, i, cs) ==
    LET n == Advance4(i) IN
    IF n > Len(apiOrder("part004"))
    THEN AfterRouting4(q, Undefined, "", cs)
    ELSE Await(apiOrder("part004")[n], n, cs, <<>>)

Enter4(q) ==
    IF Falsy(PromptValue(q))
    THEN Done(<<>>, <<>>, Response(400, "", Undefined, Error("Prompt is required", {})))
    ELSE IF IsSpecific(q.apiPreference)
    THEN IF ~API_CONFIG_key(q.apiPreference)
         THEN Done(<<>>, <<>>, Catch4(q))
         ELSE Await(q.apiPreference, 0, <<>>, <<>>)
    ELSE Loop4(q, 1, <<>>)

\* A faulty Resume4, for the sensitivity of TimeoutIsProviderFailure: a timeout
\* ends the whole request with an error.
Resume4_TimeoutIsFatal(q, apiName, o, i, cs) ==
    LET c == callSpecificAPI4(apiName, o, FALSE) IN
    IF o = TimedOut
    THEN Done(cs, <<>>, Response(500, "", Undefined, c.err))
    ELSE IF c.threw
    THEN IF IsSpecific(q.apiPreference) THEN Done(cs, <<>>, Catch4(q))
         ELSE Loop4(q, i + 1, cs)
    ELSE AfterRouting4(q, c.val, apiName, cs)

\* from the settling of apiName's call to the next await or the response
Resume4(q, apiName, o, i, cs) ==
    LET c == callSpecificAPI4(apiName, o, FALSE) IN
    IF IsSpecific(q.apiPreference)
    THEN IF c.threw THEN Done(cs, <<>>, Catch4(q))
         ELSE AfterRouting4(q, c.val, apiName, cs)
    ELSE IF c.threw THEN Loop4(q, i + 1, cs)
         ELSE AfterRouting4(q, c.val, apiName, cs)

---------------------------------------------------------------------------
(* src/unnamed/part_000: app.post("/api/prompt") *)

\* tool mode and template mode differ in the prompt text and max_tokens sent,
\* both make the one callOpenRouter call
Enter0(q) ==
    IF Falsy(PromptValue(q)) /\ q.tool = ""
    THEN Done(<<>>, <<>>, Response(400, "", Undefined, Error("Missing prompt", {})))
    ELSE IF ~API_CONFIG_key("openrouter")
    THEN Done(<<>>, <<>>,
              Response(500, "", Undefined, Error("Prompt failed", {"openrouter"})))
    ELSE Await("openrouter", 0, <<>>, <<>>)

Resume0(q, o, cs) ==
    LET c == callOpenRouter0(o) IN
    IF c.threw
    THEN Done(cs, <<>>, Response(500, "", Undefined, Error("Prompt failed", c.err.names)))
    ELSE Done(cs, <<>>, Response(200, "", c.val, NoError))

---------------------------------------------------------------------------
(* The handlers' invocations at rest *)

\* the requests handled at the same time in SpecConcurrent
RequestIds == {"A", "B"}

\* one invocation of the POST /api/prompt handler: its request, its locals,
\* what each of its provider calls did, and its response
Handler(q, s, out) ==
    [req |-> q, pc |-> s.pc, inflight |-> s.inflight, idx |-> s.idx,
     calls |-> s.calls, errorLog |-> s.errorLog, resp |-> s.resp, outcome |-> out]

NoOutcomes == [p \in Providers |-> NoOutcome]

IdleHandler ==
    [req |-> NoRequest, pc |-> "idle", inflight |-> "none", idx |-> 0,
     calls |-> <<>>, errorLog |-> <<>>, resp |-> NoResponse, outcome |-> NoOutcomes]

\* one invocation of the GET /api/status handler: the position of its loop over
\* Object.entries(API_CONFIG), the probes made, the status object, the HTTP status
\* (short: the providers whose key has no more than 10 characters)
StatusState(p, i, apiName, probed, out, status, sent, short) ==
    [pc |-> p, idx |-> i, inflight |-> apiName, probed |-> probed, outcome |-> out,
     status |-> status, sent |-> sent, short |-> short]

NoStatus ==
    StatusState("idle", 0, "none", <<>>, NoOutcomes, [p \in Providers |-> "none"], 0, {})

\* one invocation of the POST /api/image handler: its request, what it found
\* (the gallery manifest read, or the image provider's answer), its response
ImageState(p, prompt, template, found, status, url, source) ==
    [pc |-> p, prompt |-> prompt, template |-> template, found |-> found,
     status |-> status, url |-> url, source |-> source]

NoImage == ImageState("idle", Undefined, "", "none", 0, "none", "none")

\* a number, as req.body.prompt can be (a truthy one)
Num == [kind |-> "number", str |-> <<>>]

\* the HTTP exchange of one /api/prompt request: req.body.prompt as it came and
\* the statuses of the responses the handler sent, in order
Conn(prompt, sent) == [prompt |-> prompt, sent |-> sent]

NoConn == Conn(Undefined, <<>>)

\* the /api/payment-success requests handled at the same time
PayIds == {"A", "B"}

\* one invocation of the /api/payment-success handler: its position, its
\* locals userId, referrer and currentReward, the status it sent (0: none)
PayHandler(p, userId, referrer, currentReward, status) ==
    [pc |-> p, userId |-> userId, referrer |-> referrer,
     currentReward |-> currentReward, status |-> status]

IdlePay == PayHandler("idle", "none", "none", 0, 0)

\* the database (whether the handler's db is bound at all, users/<referrer>'s
\* reward, the buyers of the records under referrals) and the invocations
Payments(defined, reward, records, hs) ==
    [defined |-> defined, reward |-> reward, records |-> records, hs |-> hs]

NoPayments == Payments(TRUE, 0, <<>>, [id \in PayIds |-> IdlePay])

\* the user ids and the data fields of /api/update-user
Uids == {"u1", "u2"}

Fields == {"name", "plan"}

FieldValues == {"x", "y"}

\* a users/<uid> document, or the object req.body.data: the fields it holds
Objects == UNION {[S -> FieldValues] : S \in SUBSET Fields}

EmptyObject == [f \in {} |-> "x"]

\* req.body.data: absent (undefined), an object ({} is truthy), or a string
Data(kind, fields) == [kind |-> kind, fields |-> fields]

NoData == Data("absent", EmptyObject)

\* the user store (firestore set or null, each users/<uid> document) and one
\* invocation of the /api/update-user handler: its position, req.body's uid
\* ("" when absent, "num" when a number) and data, the writes it issued and
\* those that completed, the status it sent (0: none)
Update(ready, docs, p, uid, data, issued, completed, status) ==
    [ready |-> ready, docs |-> docs, pc |-> p, uid |-> uid, data |-> data,
     issued |-> issued, completed |-> completed, status |-> status]

NoUpdate == Update(FALSE, [u \in Uids |-> EmptyObject], "idle", "", NoData, 0, 0, 0)

---------------------------------------------------------------------------
(* The state machine *)

Init ==
    /\ variant \in Variants
    /\ key \in [Providers -> BOOLEAN]
    /\ variant = "part000" => \A p \in Providers \ {"openrouter"} : ~key[p]
    /\ pc = "idle"
    /\ req = NoRequest
    /\ inflight = "none"
    /\ idx = 0
    /\ calls = <<>>
    /\ outcome = [p \in Providers |-> NoOutcome]
    /\ errorLog = <<>>
    /\ resp = NoResponse
    /\ fb = NoPair
    /\ h = [id \in RequestIds |-> IdleHandler]
    /\ net = {}
    /\ st = NoStatus
    /\ img = NoImage
    /\ conn = NoConn
    /\ pay = NoPayments
    /\ upd = NoUpdate

\* server.js: a request arrives; destructures { prompt, apiPreference = "auto" }
RequestS ==
    /\ variant = "server" /\ pc = "idle"
    /\ \E pf \in PromptFields, pref \in Preferences, r \in RandomIndexes :
         LET q == Request(pf[1], pf[2], pref, "default", "", "") IN
         /\ req' = q
         /\ Apply(EnterS(q, r))
    /\ UNCHANGED <<variant, key, outcome, fb, h, net, st, img, conn, pay, upd>>

\* server.js: the awaited provider call settles
SettleS ==
    /\ variant = "server" /\ pc = "await"
    /\ \E o \in Settled, r \in RandomIndexes :
         /\ outcome' = [outcome EXCEPT ![inflight] = o]
         /\ Apply(ResumeS(req, inflight, o, idx, calls, errorLog, r))
    /\ UNCHANGED <<variant, key, req, fb, h, net, st, img, conn, pay, upd>>

\* part_004: a request arrives; destructures { prompt, apiPreference = "auto",
\* creativity = 70, template = "default" }
Request4 ==
    /\ variant = "part004" /\ pc = "idle"
    /\ \E pf \in PromptFields, pref \in Preferences, t \in TemplateValues :
         LET q == Request(pf[1], pf[2], pref, t, "", "") IN
         /\ req' = q
         /\ Apply(Enter4(q))
    /\ UNCHANGED <<variant, key, outcome, fb, h, net, st, img, conn, pay, upd>>

\* part_004: the awaited provider call settles, or its timeout fires first
Settle4 ==
    /\ variant = "part004" /\ pc = "await"
    /\ \E o \in Settled \cup {TimedOut} :
         /\ outcome' = [outcome EXCEPT ![inflight] = o]
         /\ Apply(Resume4(req, inflight, o, idx, calls))
    /\ UNCHANGED <<variant, key, req, fb, h, net, st, img, conn, pay, upd>>

\* part_000: a request arrives; destructures { prompt, tool, template, ..., action }
Request0 ==
    /\ variant = "part000" /\ pc = "idle"
    /\ \E pf \in PromptFields, tool \in {"", "rephrase"}, action \in {"", "tool"} :
         LET q == Request(pf[1], pf[2], "auto", "default", tool, action) IN
         /\ req' = q
         /\ Apply(Enter0(q))
    /\ UNCHANGED <<variant, key, outcome, fb, h, net, st, img, conn, pay, upd>>

\* part_000: the awaited OpenRouter call settles
Settle0 ==
    /\ variant = "part000" /\ pc = "await"
    /\ \E o \in Settled :
         /\ outcome' = [outcome EXCEPT ![inflight] = o]
         /\ Apply(Resume0(req, o, calls))
    /\ UNCHANGED <<variant, key, req, fb, h, net, st, img, conn, pay, upd>>

\* the response is out and the handler's invocation is over; its locals are gone
Complete ==
    /\ pc = "done"
    /\ pc' = "idle"
    /\ req' = NoRequest
    /\ inflight' = "none"
    /\ idx' = 0
    /\ calls' = <<>>
    /\ outcome' = [p \in Providers |-> NoOutcome]
    /\ errorLog' = <<>>
    /\ resp' = NoResponse
    /\ UNCHANGED <<variant, key, fb, h, net, st, img, conn, pay, upd>>

Next ==
    \/ RequestS
    \/ SettleS
    \/ Request4
    \/ Settle4
    \/ Request0
    \/ Settle0
    \/ Complete

Spec == Init /\ [][Next]_vars

---------------------------------------------------------------------------
(* The fallback text of two requests with the same text and template *)

\* The reply of a request (text, template) that ends in the fallback because no
\* provider has a key: the handler's own path to its outer catch.
FallbackReply(v, text, template, r) ==
    LET q == Request(TRUE, text, "auto", template, "", "") IN
    IF v = "server" THEN EnterS(q, r).resp.reply ELSE Enter4(q).resp.reply

InitFallback ==
    /\ variant \in {"server", "part004"}
    /\ key = [p \in Providers |-> FALSE]
    /\ pc = "idle"
    /\ req = NoRequest
    /\ inflight = "none"
    /\ idx = 0
    /\ calls = <<>>
    /\ outcome = [p \in Providers |-> NoOutcome]
    /\ errorLog = <<>>
    /\ resp = NoResponse
    /\ fb \in {FallbackPair(t, tp, NotYet, NotYet) :
                 t \in Texts \ {<<>>}, tp \in TemplateValues}
    /\ h = [id \in RequestIds |-> IdleHandler]
    /\ net = {}
    /\ st = NoStatus
    /\ img = NoImage
    /\ conn = NoConn
    /\ pay = NoPayments
    /\ upd = NoUpdate

\* the first request is answered
FallbackFirst ==
    /\ fb.first = NotYet
    /\ \E r \in RandomIndexes :
         fb' = [fb EXCEPT !.first = FallbackReply(variant, fb.text, fb.template, r)]
    /\ UNCHANGED <<variant, key, promptVars, h, net, st, img, conn, pay, upd>>

\* the second request is answered
FallbackSecond ==
    /\ fb.second = NotYet
    /\ \E r \in RandomIndexes :
         fb' = [fb EXCEPT !.second = FallbackReply(variant, fb.text, fb.template, r)]
    /\ UNCHANGED <<variant, key, promptVars, h, net, st, img, conn, pay, upd>>

NextFallback ==
    \/ FallbackFirst
    \/ FallbackSecond

SpecFallback == InitFallback /\ [][NextFallback]_vars

---------------------------------------------------------------------------
(* Two POST /api/prompt requests handled at the same time *)

\* Node runs one handler invocation per request; an invocation's locals
\* (response, usedAPI, errorLog, the loop position) live in its own closure, and
\* the invocations interleave at their awaits.  h[id] is the invocation of
\* request id, net the provider calls that are out on the network.

\* the handler of the deployed server, from the arrival of the request to its
\* first await or its response
Enter(v, q, r) ==
    CASE v = "server" -> EnterS(q, r)
      [] v = "part004" -> Enter4(q)
      [] OTHER -> Enter0(q)

\* the handler of the deployed server, from the settling of its awaited call to
\* its next await or its response
Resume(v, q, apiName, o, i, cs, log, r) ==
    CASE v = "server" -> ResumeS(q, apiName, o, i, cs, log, r)
      [] v = "part004" -> Resume4(q, apiName, o, i, cs)
      [] OTHER -> Resume0(q, o, cs)

\* a provider call on the network: who awaits it, whether the endpoint will
\* ever answer it, and whether the caller still awaits it
Call(id, apiName, silent, awaited) ==
    [id |-> id, api |-> apiName, silent |-> silent, awaited |-> awaited]

\* A faulty Issued, for the sensitivity of FallbackHasNoSideEffects: producing
\* the fallback sends the text to a provider as well.
Issued_FallbackCallsOut(id, s) ==
    IF s.pc = "await" THEN {Call(id, s.inflight, FALSE, TRUE)}
    ELSE IF s.resp.apiUsed = "fallback" THEN {Call(id, "openrouter", FALSE, FALSE)}
    ELSE {}

\* await callSpecificAPI(...): the fetch the step s has just issued
Issued(id, s) ==
    IF s.pc = "await" THEN {Call(id, s.inflight, FALSE, TRUE)} ELSE {}

\* A faulty Ended, for the sensitivity of ProviderCallsSequential: the handler
\* goes on while the call it awaited is still out.
Ended_StillOut(n, id, apiName) == n

\* the await resumes with the provider's answer: that call is over
Ended(n, id, apiName) == {c \in n : ~(c.id = id /\ c.api = apiName /\ c.awaited)}

\* withTimeout's timer wins the race: the fetch is not aborted, the caller no
\* longer awaits it
Abandoned(n, id, apiName) ==
    {IF c.id = id /\ c.api = apiName /\ c.awaited
     THEN Call(c.id, c.api, c.silent, FALSE) ELSE c : c \in n}

\* the call request id awaits
Awaited(id) == {c \in net : c.id = id /\ c.awaited}

\* request bodies and provider answers of the concurrent requests
ConcurrentPreferences == {"auto", "gemini"}

ConcurrentTemplates == {"default", "facebook"}

ConcurrentRequests(v) ==
    CASE v = "server" ->
           {Request(TRUE, t, pref, "default", "", "") :
              t \in Texts, pref \in ConcurrentPreferences}
      [] v = "part004" ->
           {Request(TRUE, t, pref, tp, "", "") :
              t \in Texts, pref \in ConcurrentPreferences, tp \in ConcurrentTemplates}
      [] OTHER -> {Request(TRUE, t, "auto", "default", "", "") : t \in Texts}

ConcurrentOutcomes ==
    {Outcome("ok", <<"x">>), Outcome("ok", <<>>), Outcome("http_error", <<>>)}

\* the credentials of the concurrent runs: gemini and openai, set or not
ConcurrentKeys ==
    {k \in [Providers -> BOOLEAN] : \A p \in Providers \ {"gemini", "openai"} : ~k[p]}

InitConcurrent ==
    /\ variant \in Variants
    /\ key \in ConcurrentKeys \cup {[p \in Providers |-> p = "openrouter"]}
    /\ variant = "part000" => \A p \in Providers \ {"openrouter"} : ~key[p]
    /\ pc = "idle"
    /\ req = NoRequest
    /\ inflight = "none"
    /\ idx = 0
    /\ calls = <<>>
    /\ outcome = NoOutcomes
    /\ errorLog = <<>>
    /\ resp = NoResponse
    /\ fb = NoPair
    /\ h = [id \in RequestIds |-> IdleHandler]
    /\ net = {}
    /\ st = NoStatus
    /\ img = NoImage
    /\ conn = NoConn
    /\ pay = NoPayments
    /\ upd = NoUpdate

\* request id arrives and its handler runs to its first await or its response
Arrive(id) ==
    /\ h[id].pc = "idle"
    /\ \E q \in ConcurrentRequests(variant), r \in RandomIndexes :
         LET s == Enter(variant, q, r) IN
         /\ h' = [h EXCEPT ![id] = Handler(q, s, NoOutcomes)]
         /\ net' = net \cup Issued(id, s)
    /\ UNCHANGED <<variant, key, promptVars, fb, st, img, conn, pay, upd>>

\* the provider answers the call request id awaits and the handler runs on
Answer(id) ==
    /\ h[id].pc = "await"
    /\ Call(id, h[id].inflight, FALSE, TRUE) \in net
    /\ \E o \in ConcurrentOutcomes, r \in RandomIndexes :
         LET s == Resume(variant, h[id].req, h[id].inflight, o, h[id].idx,
                         h[id].calls, h[id].errorLog, r) IN
         /\ h' = [h EXCEPT ![id] =
                    Handler(h[id].req, s, [h[id].outcome EXCEPT ![h[id].inflight] = o])]
         /\ net' = Ended(net, id, h[id].inflight) \cup Issued(id, s)
    /\ UNCHANGED <<variant, key, promptVars, fb, st, img, conn, pay, upd>>

\* the provider is down: it will never answer the call request id awaits
Silent(id) ==
    /\ h[id].pc = "await"
    /\ Call(id, h[id].inflight, FALSE, TRUE) \in net
    /\ net' = (net \ {Call(id, h[id].inflight, FALSE, TRUE)})
                 \cup {Call(id, h[id].inflight, TRUE, TRUE)}
    /\ UNCHANGED <<variant, key, promptVars, fb, h, st, img, conn, pay, upd>>

\* part_004: the timer of withTimeout fires before the provider answers
TimerFires(id) ==
    /\ variant = "part004"
    /\ h[id].pc = "await"
    /\ LET s == Resume(variant, h[id].req, h[id].inflight, TimedOut, h[id].idx,
                       h[id].calls, h[id].errorLog, 0) IN
       /\ h' = [h EXCEPT ![id] =
                  Handler(h[id].req, s,
                          [h[id].outcome EXCEPT ![h[id].inflight] = TimedOut])]
       /\ net' = Abandoned(net, id, h[id].inflight) \cup Issued(id, s)
    /\ UNCHANGED <<variant, key, promptVars, fb, st, img, conn, pay, upd>>

NextConcurrent ==
    \/ \E id \in RequestIds : Arrive(id)
    \/ \E id \in RequestIds : Answer(id)
    \/ \E id \in RequestIds : Silent(id)
    \/ \E id \in RequestIds : TimerFires(id)

SpecConcurrent == InitConcurrent /\ [][NextConcurrent]_vars

\* An answer that is on its way arrives, and a timer that was set fires.
SpecConcurrentFair ==
    /\ SpecConcurrent
    /\ \A id \in RequestIds : WF_vars(Answer(id))
    /\ \A id \in RequestIds : WF_vars(TimerFires(id))

---------------------------------------------------------------------------
(* The responses of one POST /api/prompt request *)

\* res.json / res.status(...).json: the step s sends its response, if it has one
Sent(sent, s) == IF s.resp.status # 0 THEN Append(sent, s.resp.status) ELSE sent

\* What a rejected promise of an async handler becomes depends on the express
\* the build installs: 4 leaves it unhandled (the request gets no response), 5
\* passes it to the error handler, which answers 500.
ExpressVersions == {"4", "5"}

\* server.js: prompt.substring(0, 50) of a prompt that is not a string throws
\* before the try block is entered
uncaughtS(express) ==
    IF express = "4" THEN Done(<<>>, <<>>, NoResponse)
    ELSE Done(<<>>, <<>>, Response(500, "", Undefined, Error("TypeError", {})))

InitResponses ==
    /\ variant \in Variants
    /\ key \in ConcurrentKeys \cup {[p \in Providers |-> p = "openrouter"]}
    /\ variant = "part000" => \A p \in Providers \ {"openrouter"} : ~key[p]
    /\ pc = "idle"
    /\ req = NoRequest
    /\ inflight = "none"
    /\ idx = 0
    /\ calls = <<>>
    /\ outcome = NoOutcomes
    /\ errorLog = <<>>
    /\ resp = NoResponse
    /\ fb = NoPair
    /\ h = [id \in RequestIds |-> IdleHandler]
    /\ net = {}
    /\ st = NoStatus
    /\ img = NoImage
    /\ conn = NoConn
    /\ pay = NoPayments
    /\ upd = NoUpdate

\* a request with a text (possibly empty) arrives and its handler runs to its
\* first await or its response
TextRequest ==
    /\ pc = "idle"
    /\ \E q \in ConcurrentRequests(variant), r \in RandomIndexes :
         LET s == Enter(variant, q, r) IN
         /\ req' = q
         /\ Apply(s)
         /\ conn' = Conn(Str(q.prompt), Sent(<<>>, s))
    /\ UNCHANGED <<variant, key, outcome, fb, h, net, st, img, pay, upd>>

\* server.js: a request whose prompt is a number arrives (conn holds the
\* prompt; req holds the other fields of the body)
NumberRequestS ==
    /\ variant = "server" /\ pc = "idle"
    /\ \E pref \in ConcurrentPreferences, express \in ExpressVersions :
         LET s == uncaughtS(express) IN
         /\ req' = Request(TRUE, <<>>, pref, "default", "", "")
         /\ Apply(s)
         /\ conn' = Conn(Num, Sent(<<>>, s))
    /\ UNCHANGED <<variant, key, outcome, fb, h, net, st, img, pay, upd>>

\* the awaited provider call settles, or (part_004) its timeout fires first
ProviderSettles ==
    /\ pc = "await"
    /\ \E o \in Settled \cup {TimedOut}, r \in RandomIndexes :
         LET s == Resume(variant, req, inflight, o, idx, calls, errorLog, r) IN
         /\ o = TimedOut => variant = "part004"
         /\ outcome' = [outcome EXCEPT ![inflight] = o]
         /\ Apply(s)
         /\ conn' = Conn(conn.prompt, Sent(conn.sent, s))
    /\ UNCHANGED <<variant, key, req, fb, h, net, st, img, pay, upd>>

\* part_004: the reply of a provider arrives after its timeout has fired; the
\* race is settled, so nothing of the handler runs
LateReply ==
    /\ variant = "part004"
    /\ \E p \in Providers :
         /\ outcome[p] = TimedOut
         /\ outcome' = [outcome EXCEPT ![p] = Outcome("timeout", <<"x">>)]
    /\ UNCHANGED <<variant, key, pc, req, inflight, idx, calls, errorLog, resp,
                   fb, h, net, st, img, conn, pay, upd>>

\* the handler's invocation is over and the connection is closed
ConnectionCloses ==
    /\ pc = "done"
    /\ pc' = "idle"
    /\ req' = NoRequest
    /\ inflight' = "none"
    /\ idx' = 0
    /\ calls' = <<>>
    /\ outcome' = NoOutcomes
    /\ errorLog' = <<>>
    /\ resp' = NoResponse
    /\ conn' = NoConn
    /\ UNCHANGED <<variant, key, fb, h, net, st, img, pay, upd>>

NextResponses ==
    \/ TextRequest
    \/ NumberRequestS
    \/ ProviderSettles
    \/ LateReply
    \/ ConnectionCloses

SpecResponses == InitResponses /\ [][NextResponses]_vars

---------------------------------------------------------------------------
(* GET /api/status *)

\* Object.entries(API_CONFIG), the same in server.js and part_004
configOrder == <<"openrouter", "huggingface", "gemini", "cohere", "openai">>

\* the status strings of an entry
Working == "Working"

KeyMissing(v) == IF v = "server" THEN "Key Missing" ELSE "No API Key"

ProbeFailed(v) == IF v = "server" THEN "API Error" ELSE "Failed"

\* server.js: hasKey = !!config.key && config.key.length > 10
\* part_004:  config.key
hasKey(v, apiName, short) ==
    API_CONFIG_key(apiName) /\ (v = "server" => apiName \notin short)

\* server.js: testAPI: callSpecificAPI's text cut to 100 characters, or its
\* error rethrown
testAPI(c) ==
    IF c.threw THEN Throw(c.err) ELSE Return(Str(c.val.str \o <<"...">>))

\* the probe call of the loop body once the provider's endpoint did o
Probe(v, apiName, o) ==
    IF v = "server" THEN testAPI(callSpecificAPIS(apiName, o))
    ELSE callSpecificAPI4(apiName, o, TRUE)

\* the loop from position i up to its next probe: every provider without a key
\* gets its entry and is skipped; after the last one res.json sends the object
RECURSIVE statusLoop(_, _, _)
statusLoop(v, s, i) ==
    IF i > Len(configOrder)
    THEN StatusState("done", 0, "none", s.probed, s.outcome, s.status, 200, s.short)
    ELSE IF ~hasKey(v, configOrder[i], s.short)
    THEN statusLoop(v, [s EXCEPT !.status[configOrder[i]] = KeyMissing(v)], i + 1)
    ELSE StatusState("await", i, configOrder[i], Append(s.probed, configOrder[i]),
                     s.outcome, s.status, 0, s.short)

\* A faulty statusResume, for the sensitivity of StatusReportsEveryProvider:
\* a throwing probe ends the loop.
statusResume_ThrowEndsLoop(v, s, o) ==
    LET c == Probe(v, s.inflight, o)
        t == [s EXCEPT !.outcome[s.inflight] = o] IN
    IF c.threw
    THEN StatusState("done", 0, "none", t.probed, t.outcome, t.status, 500, t.short)
    ELSE statusLoop(v, [t EXCEPT !.status[s.inflight] = Working], s.idx + 1)

\* from the settling of the awaited probe to the next probe or the response
statusResume(v, s, o) ==
    LET c == Probe(v, s.inflight, o)
        t == [s EXCEPT !.outcome[s.inflight] = o] IN
    statusLoop(v,
               [t EXCEPT !.status[s.inflight] =
                           IF c.threw THEN ProbeFailed(v) ELSE Working],
               s.idx + 1)

\* the key lengths of a process: every key is long, or OpenRouter's is short
ShortKeys == {{}, {"openrouter"}}

InitServer ==
    /\ variant \in Variants
    /\ key \in [Providers -> BOOLEAN]
    /\ variant = "part000" => \A p \in Providers \ {"openrouter"} : ~key[p]
    /\ pc = "idle"
    /\ req = NoRequest
    /\ inflight = "none"
    /\ idx = 0
    /\ calls = <<>>
    /\ outcome = NoOutcomes
    /\ errorLog = <<>>
    /\ resp = NoResponse
    /\ fb = NoPair
    /\ h = [id \in RequestIds |-> IdleHandler]
    /\ net = {}
    /\ \E short \in ShortKeys :
         /\ \A p \in short : variant = "server" /\ key[p]
         /\ st = [NoStatus EXCEPT !.short = short]
    /\ img = NoImage
    /\ conn = NoConn
    /\ pay = NoPayments
    /\ upd = NoUpdate

\* a status request arrives and the loop runs to its first probe
StatusRequest ==
    /\ variant \in {"server", "part004"}
    /\ pc = "idle" /\ st.pc = "idle"
    /\ st' = statusLoop(variant, st, 1)
    /\ UNCHANGED <<variant, key, promptVars, fb, h, net, img, conn, pay, upd>>

\* server.js: the awaited probe settles
StatusSettleS ==
    /\ variant = "server" /\ st.pc = "await"
    /\ \E o \in Settled : st' = statusResume(variant, st, o)
    /\ UNCHANGED <<variant, key, promptVars, fb, h, net, img, conn, pay, upd>>

\* part_004: the awaited probe settles, or its 5000 ms timeout fires first
StatusSettle4 ==
    /\ variant = "part004" /\ st.pc = "await"
    /\ \E o \in Settled \cup {TimedOut} : st' = statusResume(variant, st, o)
    /\ UNCHANGED <<variant, key, promptVars, fb, h, net, img, conn, pay, upd>>

\* the status object is out and the invocation is over
StatusComplete ==
    /\ st.pc = "done"
    /\ st' = [NoStatus EXCEPT !.short = st.short]
    /\ UNCHANGED <<variant, key, promptVars, fb, h, net, img, conn, pay, upd>>

\* The server with both routes.  The two handlers share nothing but the
\* read-only API_CONFIG, so a run handles one request at a time.
NextServer ==
    \/ (st.pc = "idle" /\ Next)
    \/ StatusRequest
    \/ StatusSettleS
    \/ StatusSettle4
    \/ StatusComplete

SpecServer == InitServer /\ [][NextServer]_vars

---------------------------------------------------------------------------
(* POST /api/image *)

\* The iterations that answer /api/image from a gallery manifest or from an
\* image provider: src/server.js, src/unnamed/part_000, src/unnamed/part_002.
ImageVariants == {"server", "part000", "part002"}

\* req.body.prompt: absent, or a text
ImagePrompts == {Undefined} \cup {Str(t) : t \in Texts}

\* req.body.template: absent (""), a gallery category, a name every object
\* inherits
ImageTemplates == {"", "festival"} \cup ObjectPrototypeNames

\* what fs.readFileSync(GALLERY_PATH) and JSON.parse give: the file cannot be
\* read, is empty, is not JSON, or is a manifest with these categories as its
\* own keys and these image lists under them
Manifest(keys, general, festival) ==
    [kind |-> "manifest", keys |-> keys, general |-> general, festival |-> festival]

ImageLists == {<<>>, <<"g1">>, <<"g1", "g2">>}

GalleryFiles ==
    {[kind |-> k, keys |-> {}, general |-> <<>>, festival |-> <<>>] :
       k \in {"unreadable", "empty", "malformed"}}
    \cup {Manifest({"general", "festival"}, g, f) : g \in ImageLists, f \in ImageLists}
    \cup {Manifest({"general"}, g, <<>>) : g \in ImageLists}
    \cup {Manifest({"festival"}, <<>>, f) : f \in ImageLists}
    \cup {Manifest({}, <<>>, <<>>)}

\* gallery[cat] || gallery["general"] || [] : the manifest's own list under
\* cat (an empty array is truthy), or the function every object inherits
\* under cat, whose length is 1 and whose elements are undefined, or, cat
\* being absent, the list under general, or []
GalleryLookup(file, cat) ==
    IF cat \in file.keys
    THEN IF cat = "festival" THEN file.festival ELSE file.general
    ELSE IF cat \in ObjectPrototypeNames THEN <<"undefined">>
    ELSE IF "general" \in file.keys THEN file.general
    ELSE <<>>

\* (template || "general").toLowerCase()
Category(template) == IF template = "" THEN "general" ELSE template

\* part_000: the handler, i the random index drawn
image0(prompt, template, file, i) ==
    IF Falsy(prompt)
    THEN ImageState("done", prompt, template, file, 400, "none", "none")
    ELSE IF file.kind \in {"unreadable", "malformed"}
    THEN ImageState("done", prompt, template, file, 200, "placeholder", "placeholder")
    ELSE LET arr == IF file.kind = "empty" THEN <<>>
                    ELSE GalleryLookup(file, Category(template)) IN
         IF Len(arr) > 0
         THEN ImageState("done", prompt, template, file, 200,
                         arr[1 + (i % Len(arr))], "gallery")
         ELSE ImageState("done", prompt, template, file, 200,
                         "placeholder", "placeholder")

\* part_002: the handler; JSON.parse of an empty file throws as well
image2(prompt, template, file, i) ==
    IF Falsy(prompt)
    THEN ImageState("done", prompt, template, file, 400, "none", "none")
    ELSE IF file.kind \in {"unreadable", "empty", "malformed"}
    THEN ImageState("done", prompt, template, file, 200, "placeholder", "fallback")
    ELSE LET arr == GalleryLookup(file, Category(template)) IN
         IF Len(arr) > 0
         THEN ImageState("done", prompt, template, file, 200,
                         arr[1 + (i % Len(arr))], "cloudinary")
         ELSE ImageState("done", prompt, template, file, 200,
                         "placeholder", "placeholder")

\* server.js: what the images endpoint does: the fetch or the body parse
\* rejects, the JSON has an error member, has data[0].url, or has neither
ImageAnswers == {"net_error", "error", "url", "nourl"}

\* server.js: up to await fetch(...)
imageEnterS(prompt) ==
    IF Falsy(prompt)
    THEN ImageState("done", prompt, "", "none", 400, "none", "none")
    ELSE ImageState("await", prompt, "", "none", 0, "none", "none")

\* server.js: from the settling of the fetch to the response
imageResumeS(prompt, a) ==
    IF a \in {"net_error", "error"}
    THEN ImageState("done", prompt, "", a, 200, "placeholder", "fallback")
    ELSE IF a = "url"
    THEN ImageState("done", prompt, "", a, 200, "ai", "openrouter")
    ELSE ImageState("done", prompt, "", a, 200, "placeholder", "openrouter")

InitImage ==
    /\ variant \in ImageVariants
    /\ key \in [Providers -> BOOLEAN]
    /\ \A p \in Providers \ {"openrouter"} : ~key[p]
    /\ pc = "idle"
    /\ req = NoRequest
    /\ inflight = "none"
    /\ idx = 0
    /\ calls = <<>>
    /\ outcome = NoOutcomes
    /\ errorLog = <<>>
    /\ resp = NoResponse
    /\ fb = NoPair
    /\ h = [id \in RequestIds |-> IdleHandler]
    /\ net = {}
    /\ st = NoStatus
    /\ img = NoImage
    /\ conn = NoConn
    /\ pay = NoPayments
    /\ upd = NoUpdate

\* part_000: an image request arrives and is answered
ImageRequest0 ==
    /\ variant = "part000" /\ img.pc = "idle"
    /\ \E prompt \in ImagePrompts, t \in ImageTemplates, file \in GalleryFiles,
          i \in RandomIndexes :
         img' = image0(prompt, t, file, i)
    /\ UNCHANGED <<variant, key, promptVars, fb, h, net, st, conn, pay, upd>>

\* part_002: an image request arrives and is answered
ImageRequest2 ==
    /\ variant = "part002" /\ img.pc = "idle"
    /\ \E prompt \in ImagePrompts, t \in ImageTemplates, file \in GalleryFiles,
          i \in RandomIndexes :
         img' = image2(prompt, t, file, i)
    /\ UNCHANGED <<variant, key, promptVars, fb, h, net, st, conn, pay, upd>>

\* server.js: an image request arrives
ImageRequestS ==
    /\ variant = "server" /\ img.pc = "idle"
    /\ \E prompt \in ImagePrompts : img' = imageEnterS(prompt)
    /\ UNCHANGED <<variant, key, promptVars, fb, h, net, st, conn, pay, upd>>

\* server.js: the images endpoint's call settles
ImageSettleS ==
    /\ variant = "server" /\ img.pc = "await"
    /\ \E a \in ImageAnswers : img' = imageResumeS(img.prompt, a)
    /\ UNCHANGED <<variant, key, promptVars, fb, h, net, st, conn, pay, upd>>

\* the response is out and the invocation is over
ImageComplete ==
    /\ img.pc = "done"
    /\ img' = NoImage
    /\ UNCHANGED <<variant, key, promptVars, fb, h, net, st, conn, pay, upd>>

NextImage ==
    \/ ImageRequest0
    \/ ImageRequest2
    \/ ImageRequestS
    \/ ImageSettleS
    \/ ImageComplete

SpecImage == InitImage /\ [][NextImage]_vars

---------------------------------------------------------------------------
(* POST /api/payment-success: concurrent invocations over one database *)

\* the referrer every referred buyer names
Referrer == "r"

\* the users of the database and the ids a request can carry ("nobody" has no
\* record: userSnap.val() is null)
Buyers == {"b1", "b2", "b3"}

PayUserIds == Buyers \cup {"nobody"}

\* user.referredBy of a user of the database ("none": absent, falsy)
referredBy(u) == IF u \in {"b1", "b3"} THEN Referrer ELSE "none"

\* the handler's promise rejects with nothing to catch it: no response is sent
Crashed(hnd) == PayHandler("crashed", hnd.userId, hnd.referrer, hnd.currentReward, 0)

\* pay after the invocation id moved to hnd and the database to reward, records
Paid(id, hnd, reward, records) ==
    Payments(pay.defined, reward, records, [pay.hs EXCEPT ![id] = hnd])

InitPayment ==
    /\ variant = "part002"
    /\ key = [p \in Providers |-> p = "openrouter"]
    /\ pc = "idle"
    /\ req = NoRequest
    /\ inflight = "none"
    /\ idx = 0
    /\ calls = <<>>
    /\ outcome = NoOutcomes
    /\ errorLog = <<>>
    /\ resp = NoResponse
    /\ fb = NoPair
    /\ h = [id \in RequestIds |-> IdleHandler]
    /\ net = {}
    /\ st = NoStatus
    /\ img = NoImage
    /\ conn = NoConn
    /\ pay \in {Payments(d, 0, <<>>, [id \in PayIds |-> IdlePay]) : d \in BOOLEAN}
    /\ upd = NoUpdate

\* the request arrives: const { userId } = req.body, and db.ref(...) is
\* evaluated, a ReferenceError when db is not bound
PayArrive(id) ==
    /\ pay.hs[id].pc = "idle"
    /\ \E userId \in PayUserIds :
           pay' = Paid(id, IF pay.defined
                           THEN PayHandler("user", userId, "none", 0, 0)
                           ELSE Crashed(PayHandler("idle", userId, "none", 0, 0)),
                       pay.reward, pay.records)
    /\ UNCHANGED <<variant, key, promptVars, fb, h, net, st, img, conn, upd>>

\* users/<userId> was read: user.referredBy of null is a TypeError, a buyer
\* without referrer is answered at once
PayUserRead(id) ==
    /\ pay.hs[id].pc = "user"
    /\ \E ok \in BOOLEAN :
           LET hnd == pay.hs[id]
               next == IF ~ok \/ hnd.userId \notin Buyers THEN Crashed(hnd)
                       ELSE IF referredBy(hnd.userId) = "none"
                            THEN PayHandler("done", hnd.userId, "none", 0, 200)
                       ELSE PayHandler("referrer", hnd.userId,
                                       referredBy(hnd.userId), 0, 0)
           IN  pay' = Paid(id, next, pay.reward, pay.records)
    /\ UNCHANGED <<variant, key, promptVars, fb, h, net, st, img, conn, upd>>

\* users/<referrer> was read: currentReward = refData.reward || 0
PayRefRead(id) ==
    /\ pay.hs[id].pc = "referrer"
    /\ \E ok \in BOOLEAN :
           LET hnd == pay.hs[id]
               next == IF ~ok THEN Crashed(hnd)
                       ELSE PayHandler("update", hnd.userId, hnd.referrer,
                                       pay.reward, 0)
           IN  pay' = Paid(id, next, pay.reward, pay.records)
    /\ UNCHANGED <<variant, key, promptVars, fb, h, net, st, img, conn, upd>>

\* update({ reward: currentReward + 10 }) settled
PayUpdate(id) ==
    /\ pay.hs[id].pc = "update"
    /\ \E ok \in BOOLEAN :
           LET hnd == pay.hs[id]
           IN  pay' = IF ok
                      THEN Paid(id, PayHandler("push", hnd.userId, hnd.referrer,
                                               hnd.currentReward, 0),
                                hnd.currentReward + 10, pay.records)
                      ELSE Paid(id, Crashed(hnd), pay.reward, pay.records)
    /\ UNCHANGED <<variant, key, promptVars, fb, h, net, st, img, conn, upd>>

\* db.ref("referrals").push(...) settled; then res.json({ success: true })
PayPush(id) ==
    /\ pay.hs[id].pc = "push"
    /\ \E ok \in BOOLEAN :
           LET hnd == pay.hs[id]
           IN  pay' = IF ok
                      THEN Paid(id, PayHandler("done", hnd.userId, hnd.referrer,
                                               hnd.currentReward, 200),
                                pay.reward, Append(pay.records, hnd.userId))
                      ELSE Paid(id, Crashed(hnd), pay.reward, pay.records)
    /\ UNCHANGED <<variant, key, promptVars, fb, h, net, st, img, conn, upd>>

NextPayment ==
    \E id \in PayIds :
        \/ PayArrive(id)
        \/ PayUserRead(id)
        \/ PayRefRead(id)
        \/ PayUpdate(id)
        \/ PayPush(id)

SpecPayment == InitPayment /\ [][NextPayment]_vars

---------------------------------------------------------------------------
(* POST /api/update-user *)

\* req.body.uid as it can come: absent, a user id, a number
UidValues == {"", "num"} \cup Uids

DataValues == {NoData, Data("string", EmptyObject)}
              \cup {Data("object", o) : o \in Objects}

\* set(data, { merge: true }): the fields of data replace or join the document's
Merge(doc, data) ==
    [f \in DOMAIN doc \cup DOMAIN data |-> IF f \in DOMAIN data THEN data[f] ELSE doc[f]]

\* the handler's end with the status it sent
updateDone(u, issued, completed, status) ==
    Update(u.ready, u.docs, "done", u.uid, u.data, issued, completed, status)

\* the handler up to its await: the store and the body are checked; doc(uid)
\* throws for a uid that is not a string and set(data) for a data that is not
\* an object, into the catch block
updateEnter_AnswersFirst(u, uid, data) ==
    LET v == Update(u.ready, u.docs, "write", uid, data, 0, 0, 0)
    IN  IF ~u.ready THEN updateDone(v, 0, 0, 500)
        ELSE IF uid = "" \/ data.kind = "absent" THEN updateDone(v, 0, 0, 400)
        ELSE IF uid \notin Uids \/ data.kind # "object" THEN updateDone(v, 0, 0, 500)
        ELSE Update(u.ready, u.docs, "write", uid, data, 1, 0, 200)

updateEnter(u, uid, data) ==
    LET v == Update(u.ready, u.docs, "write", uid, data, 0, 0, 0)
    IN  IF ~u.ready THEN updateDone(v, 0, 0, 500)
        ELSE IF uid = "" \/ data.kind = "absent" THEN updateDone(v, 0, 0, 400)
        ELSE IF uid \notin Uids \/ data.kind # "object" THEN updateDone(v, 0, 0, 500)
        ELSE Update(u.ready, u.docs, "write", uid, data, 1, 0, 0)

\* the write settled: return res.json({ success: true }), or the catch block
updateResume(u, ok) ==
    IF ok
    THEN Update(u.ready, [u.docs EXCEPT ![u.uid] = Merge(@, u.data.fields)],
                "done", u.uid, u.data, u.issued, u.completed + 1, 200)
    ELSE updateDone(u, u.issued, u.completed, 500)

InitUpdateUser ==
    /\ variant = "part000"
    /\ key = [p \in Providers |-> p = "openrouter"]
    /\ pc = "idle"
    /\ req = NoRequest
    /\ inflight = "none"
    /\ idx = 0
    /\ calls = <<>>
    /\ outcome = NoOutcomes
    /\ errorLog = <<>>
    /\ resp = NoResponse
    /\ fb = NoPair
    /\ h = [id \in RequestIds |-> IdleHandler]
    /\ net = {}
    /\ st = NoStatus
    /\ img = NoImage
    /\ conn = NoConn
    /\ pay = NoPayments
    /\ upd \in {Update(r, NoUpdate.docs, "idle", "", NoData, 0, 0, 0) : r \in BOOLEAN}

UpdateRequest ==
    /\ upd.pc = "idle"
    /\ \E uid \in UidValues, data \in DataValues : upd' = updateEnter(upd, uid, data)
    /\ UNCHANGED <<variant, key, promptVars, fb, h, net, st, img, conn, pay>>

UpdateSettle ==
    /\ upd.pc = "write"
    /\ \E ok \in BOOLEAN : upd' = updateResume(upd, ok)
    /\ UNCHANGED <<variant, key, promptVars, fb, h, net, st, img, conn, pay>>

\* the invocation is over; the store keeps its documents
UpdateComplete ==
    /\ upd.pc = "done"
    /\ upd' = Update(upd.ready, upd.docs, "idle", "", NoData, 0, 0, 0)
    /\ UNCHANGED <<variant, key, promptVars, fb, h, net, st, img, conn, pay>>

NextUpdateUser == UpdateRequest \/ UpdateSettle \/ UpdateComplete

SpecUpdateUser == InitUpdateUser /\ [][NextUpdateUser]_vars

---------------------------------------------------------------------------
(* Vocabulary of the properties *)

\* the deployed server is one of the two multi-provider routers
Router == variant \in {"server", "part004"}

\* the request's text is non-empty
HasText == ~Falsy(PromptValue(req))

Position(p) == CHOOSE i \in DOMAIN apiOrder(variant) : apiOrder(variant)[i] = p

Called(p) == \E i \in DOMAIN calls : calls[i] = p

\* p's endpoint answered its call with a non-empty text body
NonEmptyText(p) == outcome[p].kind = "ok" /\ outcome[p].body # <<>>

\* p's endpoint answered its call with an empty text body
EmptyText(p) == outcome[p] = Outcome("ok", <<>>)

\* the request names a configured provider that has a credential
ValidPreference == req.apiPreference \in Providers /\ key[req.apiPreference]

\* the candidates of the request
Candidates ==
    IF ValidPreference THEN {req.apiPreference} ELSE {p \in Providers : key[p]}

\* the providers with a credential that come after p in the priority order
KeyedAfter(p) == {q \in Providers : key[q] /\ Position(q) > Position(p)}

\* the first of a non-empty set of providers in the priority order
First(S) == CHOOSE p \in S : \A q \in S : Position(p) <= Position(q)

\* the provider names of the errorLog entries, in order
LoggedAPIs == [i \in DOMAIN errorLog |-> errorLog[i].api]

\* the wordings of the missing-prompt error
MissingPromptMessages == {"Missing prompt", "Prompt is required"}

\* the handler run on request q alone, its provider calls answered as out says,
\* from the step s on to the response
RECURSIVE Route(_, _, _, _, _)
Route(v, q, out, s, r) ==
    IF s.pc = "await"
    THEN Route(v, q, out,
               Resume(v, q, s.inflight, out[s.inflight], s.idx, s.calls, s.errorLog, r),
               r)
    ELSE s

\* what a request alone on the server gets
Alone(v, q, out, r) == Route(v, q, out, Enter(v, q, r), r)

---------------------------------------------------------------------------
(* Properties *)

\* C1: a request with no preferred provider, with at least one credential:
\* the response names the first provider in priority order that has a
\* credential and whose call succeeded (answered with a non-empty text), and no
\* provider after it was called.
FirstSuccessfulProviderWins ==
    (Router /\ pc = "done" /\ HasText /\ req.apiPreference = "auto"
       /\ \E p \in Providers : key[p])
    => /\ \A p \in Providers : Called(p) /\ NonEmptyText(p) => resp.apiUsed = p
       /\ \A p \in Providers :
            resp.apiUsed = p =>
              /\ key[p] /\ Called(p) /\ NonEmptyText(p)
              /\ \A q \in Providers : Called(q) => Position(q) <= Position(p)

\* C2: a request with a non-empty text is answered 200, whatever the provider
\* calls did; the only error response is the 400 of a missing prompt.
NonEmptyTextAlways200 ==
    (pc = "done" /\ HasText) => resp.status = 200

\* C3: a request whose text is empty or missing is answered 400 "Missing
\* prompt" and no provider call is issued, whatever its other fields are.
MissingPromptRejectedWithoutCall ==
    (pc # "idle" /\ ~HasText)
    => /\ pc = "done"
       /\ resp.status = 400
       /\ resp.error.msg \in MissingPromptMessages
       /\ calls = <<>>

PreferredFailureNamesProvider ==
    (Router /\ pc = "done" /\ HasText /\ ValidPreference
       /\ ~NonEmptyText(req.apiPreference))
    => /\ req.apiPreference \in resp.error.names
       /\ resp.apiUsed \notin Providers

\* C6: a request whose preferred provider is absent, unknown or without a
\* credential is routed as a request with no preference: it is not rejected,
\* the first provider with a credential is called first, and it reaches the
\* fallback only when there is no candidate or every candidate was called.
InvalidPreferenceRoutedAsAuto ==
    (Router /\ pc # "idle" /\ HasText /\ ~ValidPreference)
    => /\ resp.status # 400
       /\ (\E p \in Providers : key[p])
            => calls # <<>> /\ calls[1] = First({p \in Providers : key[p]})

\* C7: if every candidate fails, or no provider has a credential, the response
\* is a 200 with providerUsed "fallback" carrying locally generated text, and
\* only the failed candidates were called.
ExhaustionGivesFallback ==
    (Router /\ pc = "done" /\ HasText
       /\ \A p \in Candidates : Called(p) /\ ~NonEmptyText(p))
    => /\ resp.status = 200
       /\ resp.apiUsed = "fallback"
       /\ resp.reply.kind = "string" /\ resp.reply.str # <<>>
       /\ \A p \in Providers : Called(p) => p \in Candidates

\* C8: two requests with the same text and template that both end in the
\* fallback receive the same body.
FallbackDeterministic ==
    (fb.first # NotYet /\ fb.second # NotYet) => fb.first = fb.second

\* C9: in the auto loop a provider's empty text body is that provider's
\* failure: the provider is not named in the response and the next provider
\* with a credential is called, so an empty body never ends the loop while
\* untried candidates remain.  (What the attempt log holds is C10's matter.)
EmptyBodyIsFailure ==
    (Router /\ pc = "done" /\ HasText /\ ~IsSpecific(req.apiPreference))
    => \A p \in Providers :
         Called(p) /\ EmptyText(p) =>
           /\ resp.apiUsed # p
           /\ KeyedAfter(p) # {} => Called(First(KeyedAfter(p)))

\* C10: server.js: the attempt log holds exactly one entry for each provider
\* that was called and failed (every called provider but the winner), in call
\* order, and none for a provider that was never called.
AttemptLogIsFailedCalls ==
    (variant = "server" /\ pc = "done" /\ HasText)
    => LoggedAPIs = SelectSeq(calls, LAMBDA p : resp.apiUsed # p)

\* C11: within one request the provider calls are sequential: at most one
\* call of the request is in flight (issued, neither answered nor timed out),
\* it is the last call made, and every call made before it has been answered
\* or has timed out.
ProviderCallsSequential ==
    \A id \in RequestIds :
      /\ Cardinality(Awaited(id)) <= 1
      /\ \A c \in Awaited(id) :
           /\ h[id].calls # <<>>
           /\ c.api = h[id].calls[Len(h[id].calls)]
      /\ \A k \in 1..(Len(h[id].calls) - 1) :
           h[id].outcome[h[id].calls[k]] # NoOutcome

\* C11, its case: a request's second provider call is in flight after its
\* first one failed, while the other request has a call in flight too.
SecondCallInFlight ==
    \E id \in RequestIds :
      /\ Len(h[id].calls) = 2
      /\ Awaited(id) # {}
      /\ \E other \in RequestIds \ {id} : Awaited(other) # {}

\* C12: part_004: a provider call that exceeds its timeout is that provider's
\* failure only: the response is a 200 that does not name the provider, the
\* next provider with a credential was called in auto mode, and the fallback
\* answers when there is none or the provider was the preferred one.
TimeoutIsProviderFailure ==
    (variant = "part004" /\ pc = "done" /\ HasText)
    => \A p \in Providers :
         (Called(p) /\ outcome[p] = TimedOut) =>
           /\ resp.status = 200
           /\ resp.apiUsed # p
           /\ (~IsSpecific(req.apiPreference) /\ KeyedAfter(p) # {})
                => Called(First(KeyedAfter(p)))
           /\ (IsSpecific(req.apiPreference) \/ KeyedAfter(p) = {})
                => resp.apiUsed = "fallback"

\* C12, its case: a provider timed out and a later provider gave the reply.
TimeoutThenNextAnswers ==
    /\ variant = "part004" /\ pc = "done" /\ HasText
    /\ \E p \in Providers : Called(p) /\ outcome[p] = TimedOut
    /\ resp.status = 200
    /\ resp.apiUsed \in Providers

\* C13: every request that waits for a provider eventually gets its response,
\* even when the provider never answers, and so does the request handled at
\* the same time.
EveryRequestAnswered ==
    \A id \in RequestIds : (h[id].pc = "await") ~> (h[id].pc = "done")

\* C13 as far as part_004 goes: there the timer of withTimeout ends every wait.
EveryRequestAnswered4 ==
    \A id \in RequestIds :
      (variant = "part004" /\ h[id].pc = "await") ~> (h[id].pc = "done")

\* C14: two requests handled concurrently are independent: under every
\* interleaving each request's response, calls and attempt log are those the
\* handler gives that request alone, and they depend only on the request's
\* body and the outcomes of its own provider calls: two requests with the same
\* body whose calls had the same outcomes get the same response.
RequestsIndependent ==
    /\ \A id \in RequestIds :
         h[id].pc = "done" =>
           \E r \in RandomIndexes :
             LET s == Alone(variant, h[id].req, h[id].outcome, r) IN
             /\ h[id].resp = s.resp
             /\ h[id].calls = s.calls
             /\ h[id].errorLog = s.errorLog
    /\ \A a, b \in RequestIds :
         (h[a].pc = "done" /\ h[b].pc = "done"
            /\ h[a].req = h[b].req /\ h[a].outcome = h[b].outcome)
         => /\ h[a].resp = h[b].resp
            /\ h[a].calls = h[b].calls
            /\ h[a].errorLog = h[b].errorLog

\* C14 but for the body of server.js's fallback: the provider used, the status,
\* the calls and the attempt log of a request are its own.
RequestsIndependentButFallbackText ==
    /\ \A id \in RequestIds :
         h[id].pc = "done" =>
           \E r \in RandomIndexes :
             LET s == Alone(variant, h[id].req, h[id].outcome, r) IN
             /\ h[id].resp = s.resp
             /\ h[id].calls = s.calls
             /\ h[id].errorLog = s.errorLog
    /\ \A a, b \in RequestIds :
         (h[a].pc = "done" /\ h[b].pc = "done"
            /\ h[a].req = h[b].req /\ h[a].outcome = h[b].outcome)
         => /\ h[a].resp.status = h[b].resp.status
            /\ h[a].resp.apiUsed = h[b].resp.apiUsed
            /\ h[a].resp.error = h[b].resp.error
            /\ (variant # "server" \/ h[a].resp.apiUsed # "fallback")
                 => h[a].resp.reply = h[b].resp.reply
            /\ h[a].calls = h[b].calls
            /\ h[a].errorLog = h[b].errorLog

\* the image URLs a response may carry
ImageUrls == {"placeholder", "ai", "g1", "g2"}

\* C15: POST /api/image never errors: every request is answered 200 with an
\* image URL, the placeholder when the gallery or the provider gives none.
ImageNeverErrors ==
    img.pc = "done" => (img.status = 200 /\ img.url \in ImageUrls)

\* C15 for the requests that carry a prompt and no inherited category name.
ImageWithPromptNeverErrors ==
    (img.pc = "done" /\ ~Falsy(img.prompt) /\ img.template \notin ObjectPrototypeNames)
    => (img.status = 200 /\ img.url \in ImageUrls)

\* the probe of p was made
Probed(p) == \E i \in DOMAIN st.probed : st.probed[i] = p

Contains(s, sub) ==
    \E i \in 1..(Len(s) - Len(sub) + 1) : SubSeq(s, i, i + Len(sub) - 1) = sub

\* C17: for every text and every template value the fallback body is a text
\* that contains the request text verbatim.
FallbackContainsText ==
    fb.first # NotYet
    => (fb.first.kind = "string" /\ Contains(fb.first.str, fb.text))

\* C17 for the template values that are not names inherited from
\* Object.prototype.
FallbackContainsTextOwnTemplates ==
    (fb.first # NotYet /\ fb.template \notin ObjectPrototypeNames)
    => (fb.first.kind = "string" /\ Contains(fb.first.str, fb.text))

\* the provider calls that are out, by request and provider
CallsOut(n) == {<<c.id, c.api>> : c \in n}

FilteredOrder == SelectSeq(apiOrder(variant), LAMBDA p : key[p])

\* the candidates of the request in order: the preferred provider alone when
\* it is configured and has a credential (C4), else the filtered priority list
CandidateList == IF ValidPreference THEN <<req.apiPreference>> ELSE FilteredOrder

ExactlyOneResponse ==
    /\ Len(conn.sent) <= 1
    /\ pc = "await" => conn.sent = <<>>
    /\ pc = "done" => Len(conn.sent) = 1

\* C21 for the requests whose prompt is a string or absent.
ExactlyOneResponseToText ==
    conn.prompt.kind # "number"
    => /\ Len(conn.sent) <= 1
       /\ pc = "await" => conn.sent = <<>>
       /\ pc = "done" => Len(conn.sent) = 1

\* C22: in every response that carries the provider-used field, the field is
\* "fallback" or the name of a provider that has a credential, was called in
\* this request and returned a non-empty text, and then the body is exactly
\* the text that provider returned.
ProviderUsedIsTruthful ==
    (Router /\ pc = "done" /\ resp.apiUsed # "")
    => \/ resp.apiUsed = "fallback"
       \/ /\ resp.apiUsed \in Providers
          /\ key[resp.apiUsed]
          /\ Called(resp.apiUsed)
          /\ NonEmptyText(resp.apiUsed)
          /\ resp.reply = Str(outcome[resp.apiUsed].body)

\* C22 but for the text itself: the provider named has a credential, was
\* called in this request and answered 2xx.
ProviderUsedWasCalled ==
    (Router /\ pc = "done" /\ resp.apiUsed # "")
    => \/ resp.apiUsed = "fallback"
       \/ /\ resp.apiUsed \in Providers
          /\ key[resp.apiUsed]
          /\ Called(resp.apiUsed)
          /\ outcome[resp.apiUsed].kind \in {"ok", "nofield"}

\* the invocations answered with success for a buyer who has a referrer
Referred == {id \in PayIds : /\ pay.hs[id].pc = "done"
                             /\ pay.hs[id].status = 200
                             /\ pay.hs[id].referrer = Referrer}

\* no invocation is under way and none ended without a response
PayQuiet == \A id \in PayIds : pay.hs[id].pc \in {"idle", "done"}

\* C23: once the /api/payment-success requests have been answered, under any
\* interleaving of them, the referrer's reward has grown by 10 for each
\* successful request of a buyer with a referrer and one referral record was
\* appended for each; requests of buyers without referrer changed nothing.
RewardGrowsByTenEach ==
    PayQuiet => /\ pay.reward = 10 * Cardinality(Referred)
                /\ Len(pay.records) = Cardinality(Referred)

\* C23 for the records alone: one referral record per successful request of
\* a buyer with a referrer, none for a buyer without.
OneRecordEach == PayQuiet => Len(pay.records) = Cardinality(Referred)

\* C24: /api/update-user writes only when the store is initialised and uid
\* and data are present, at most once per request; it answers success only
\* after the merge write completed, the document then holding the data; and
\* every error answer (store not initialised or write failure: 500, missing
\* uid or data: 400) ends the request with no write completed and none left
\* to issue.
UpdateUserWritesGuarded ==
    /\ upd.issued <= 1
    /\ upd.completed <= upd.issued
    /\ upd.issued = 1 => upd.ready /\ upd.uid # "" /\ upd.data.kind # "absent"
    /\ upd.status # 0 => upd.pc = "done"
    /\ upd.pc = "done" => upd.status \in {200, 400, 500}
    /\ upd.status = 200 =>
           /\ upd.completed = 1
           /\ \A f \in DOMAIN upd.data.fields :
                  /\ f \in DOMAIN upd.docs[upd.uid]
                  /\ upd.docs[upd.uid][f] = upd.data.fields[f]
    /\ upd.status \in {400, 500} => upd.completed = 0
    /\ (upd.pc = "done" /\ ~upd.ready) => upd.status = 500 /\ upd.issued = 0
    /\ (upd.pc = "done" /\ upd.ready /\ (upd.uid = "" \/ upd.data.kind = "absent"))
           => upd.status = 400 /\ upd.issued = 0

\* a second update of a document was answered with success: the merge kept
\* the field the request did not carry
UpdateMerged ==
    /\ upd.pc = "done" /\ upd.status = 200
    /\ upd.uid \in Uids
    /\ DOMAIN upd.data.fields = {"plan"}
    /\ DOMAIN upd.docs[upd.uid] = Fields

\* a write failed and the request was answered 500
UpdateFailed == upd.pc = "done" /\ upd.status = 500 /\ upd.issued = 1

\* the images the manifest read holds for category c
Images(file, c) ==
    IF file.kind = "manifest" /\ c \in file.keys
    THEN IF c = "festival" THEN file.festival ELSE file.general
    ELSE <<>>

\* the images of the requested category or, when it has none, of general
ImagesFor(file, c) ==
    IF Len(Images(file, c)) > 0 THEN Images(file, c) ELSE Images(file, "general")

Members(list) == {list[i] : i \in DOMAIN list}

\* a gallery-backed /api/image request with a non-empty prompt was answered
GalleryAnswered ==
    /\ variant \in {"part000", "part002"}
    /\ img.pc = "done"
    /\ ~Falsy(img.prompt)

\* C25: /api/image with a non-empty prompt answers with source "gallery"
\* exactly when the manifest is readable and holds an image for the requested
\* category or, that category having none, for general; the image returned
\* is a member of that list; otherwise the source is "placeholder" and the
\* image the placeholder URL.
GalleryExactlyWhenImages ==
    GalleryAnswered
    => LET list == ImagesFor(img.found, Category(img.template)) IN
       /\ img.status = 200
       /\ img.source = "gallery" <=> Len(list) > 0
       /\ img.source = "gallery" => img.url \in Members(list)
       /\ img.source # "gallery"
            => img.source = "placeholder" /\ img.url = "placeholder"

\* C25 for part_000 and the categories that are absent from the manifest or
\* hold images in it.
GalleryExactlyWhenImagesOwn ==
    (/\ GalleryAnswered
     /\ variant = "part000"
     /\ img.template \notin ObjectPrototypeNames
     /\ (Category(img.template) \in img.found.keys
           => Len(Images(img.found, Category(img.template))) > 0))
    => LET list == ImagesFor(img.found, Category(img.template)) IN
       /\ img.status = 200
       /\ img.source = "gallery" <=> Len(list) > 0
       /\ img.source = "gallery" => img.url \in Members(list)
       /\ img.source # "gallery"
            => img.source = "placeholder" /\ img.url = "placeholder"

====
